---- MODULE Spec2Model ----
(***************************************************************************)
(* SMTP account registry of the mail portal (api/routes/smtp.ts).          *)
(*                                                                         *)
(* db is the smtpConfig table.  Rows are never removed, so the table is a  *)
(* sequence and a row's id is its position.  createdAt is the logical time *)
(* of the insert: every insert gets a later timestamp than the one before. *)
(*                                                                         *)
(* Specifications:                                                         *)
(*   Spec      requests run one after another, each handler is one action; *)
(*             rows carry the columns that decide default and active;      *)
(*   SpecConc  requests overlap, one action per awaited database statement;*)
(*   SpecAcct  the account handlers and the resolver over rows with every  *)
(*             column, request bodies and response bodies;                 *)
(*   SpecMail  the send route with staging and dispatch, and the routes    *)
(*             that delete messages;                                       *)
(*   SpecVault one encryptPassword / decryptPassword use per behaviour,    *)
(*             for every master key and secret of the bounded sets.        *)
(***************************************************************************)
EXTENDS Integers, Sequences, FiniteSets, TLC

VARIABLES db, req, last, pre

\* the smtpConfig table with every column, the last response with its body,
\* the table before that request and the number of requests served
VARIABLES smtpConfig, reply, before, nreq

\* the email and attachment tables, the files of the upload directory, the
\* clock Date.now() reads and the number of email records created so far
VARIABLES email, attachment, uploads, now, nmail

\* one use of the credential vault: master key, secret, iv, envelope, result
VARIABLES vault

acctVars == <<smtpConfig, reply, before, nreq>>

mailVars == <<email, attachment, uploads, now, nmail>>

fullVars == <<smtpConfig, reply, before, nreq, email, attachment, uploads, now,
             nmail, vault>>

vars == <<db, req, last, pre, smtpConfig, reply, before, nreq, email, attachment,
         uploads, now, nmail, vault>>

\* ---------------------------------------------------------------- bounds
MaxConfigs == 3

Users == {"u1", "u2"}

Procs == {"p1", "p2"}

\* the owners whose requests overlap
ConcUsers == {"u1"}

Ids == 1..MaxConfigs

\* isDefault as it arrives in a request body: absent, true or false
BodyFlags == {"undefined", "true", "false"}

\* ------------------------------------------------- prisma query operators
Truthy(flag) == flag = "true"

\* where: { userId }
RowsOf(d, u) == {i \in DOMAIN d : d[i].userId = u}

\* where: { userId, isActive: true }
ActiveOf(d, u) == {i \in RowsOf(d, u) : d[i].isActive}

\* where: { userId, isDefault: true, isActive: true }
ActiveDefaultsOf(d, u) == {i \in ActiveOf(d, u) : d[i].isDefault}

\* where: { userId, isDefault: true }
DefaultsOf(d, u) == {i \in RowsOf(d, u) : d[i].isDefault}

\* findFirst({ where: { id, userId } })
FindOwned_AnyOwner(d, u, id) == id \in DOMAIN d

FindOwned(d, u, id) == id \in RowsOf(d, u)

\* findFirst({ where: { id, userId, isActive: true } })
FindOwnedActive(d, u, id) == id \in ActiveOf(d, u)

\* updateMany({ where: { userId, isDefault: true }, data: { isDefault: false } })
ClearDefaults_Skipped(d, u) == d

ClearDefaults_EveryOwner(d, u) ==
  [i \in DOMAIN d |-> [d[i] EXCEPT !.isDefault = FALSE]]

ClearDefaults(d, u) ==
  [i \in DOMAIN d |-> IF i \in DefaultsOf(d, u)
                      THEN [d[i] EXCEPT !.isDefault = FALSE] ELSE d[i]]

\* updateMany({ where: { userId, isDefault: true, id: { not: id } }, ... })
ClearOtherDefaults(d, u, id) ==
  [i \in DOMAIN d |-> IF i \in DefaultsOf(d, u) /\ i # id
                      THEN [d[i] EXCEPT !.isDefault = FALSE] ELSE d[i]]

\* create({ data: { userId, ..., isDefault: Boolean(isDefault), isActive: true } })
CreateConfig(d, u, flag) ==
  Append(d, [userId |-> u, isDefault |-> Truthy(flag), isActive |-> TRUE,
             createdAt |-> Len(d) + 1])

\* updateData of PUT: isDefault is written only when it is present
UpdateConfig_Reactivates(d, id, flag) ==
  IF flag = "undefined" THEN [d EXCEPT ![id].isActive = TRUE]
  ELSE [d EXCEPT ![id].isDefault = Truthy(flag), ![id].isActive = TRUE]

UpdateConfig(d, id, flag) ==
  IF flag = "undefined" THEN d
  ELSE [d EXCEPT ![id].isDefault = Truthy(flag)]

\* update({ where: { id }, data: { isDefault: true } })
MarkDefault(d, id) == [d EXCEPT ![id].isDefault = TRUE]

\* $transaction([updateMany clear defaults, update target])
SetDefaultTransaction_NoClear(d, u, id) == MarkDefault(d, id)

SetDefaultTransaction_ClearOnly(d, u, id) == ClearDefaults(d, u)

SetDefaultTransaction(d, u, id) == MarkDefault(ClearDefaults(d, u), id)

\* count({ where: { userId, isActive: true } })
ConfigCount_AllRows(d, u) == Cardinality(RowsOf(d, u))

ConfigCount(d, u) == Cardinality(ActiveOf(d, u))

\* findFirst({ where: { userId, isActive, id: { not: id } }, orderBy: createdAt asc })
\* 0 stands for null
NextConfig_Newest(d, u, id) ==
  LET cand == ActiveOf(d, u) \ {id}
  IN IF cand = {} THEN 0
     ELSE CHOOSE i \in cand : \A j \in cand : d[i].createdAt >= d[j].createdAt

NextConfig(d, u, id) ==
  LET cand == ActiveOf(d, u) \ {id}
  IN IF cand = {} THEN 0
     ELSE CHOOSE i \in cand : \A j \in cand : d[i].createdAt <= d[j].createdAt

\* update({ where: { id }, data: { isActive: false } })
SoftDelete(d, id) == [d EXCEPT ![id].isActive = FALSE]

\* ------------------------------------------------------- GET /configs body
RECURSIVE SetToSeq(_)
SetToSeq(S) ==
  IF S = {} THEN <<>>
  ELSE LET x == CHOOSE y \in S : TRUE IN <<x>> \o SetToSeq(S \ {x})

\* orderBy: [{ isDefault: 'desc' }, { createdAt: 'desc' }]
ListBefore_OldestFirst(a, b) ==
  \/ a.isDefault /\ ~b.isDefault
  \/ a.isDefault = b.isDefault /\ a.createdAt < b.createdAt

ListBefore(a, b) ==
  \/ a.isDefault /\ ~b.isDefault
  \/ a.isDefault = b.isDefault /\ a.createdAt > b.createdAt

ListedRow(d, i) ==
  [id |-> i, isDefault |-> d[i].isDefault, isActive |-> d[i].isActive,
   createdAt |-> d[i].createdAt]

GetConfigsBody(d, u) ==
  SortSeq(SetToSeq({ListedRow(d, i) : i \in ActiveOf(d, u)}), ListBefore)

\* ------------------------------------------------------------- responses
NoBody == <<>>

Response(op, u, id, status, body) ==
  [op |-> op, user |-> u, id |-> id, status |-> status, configs |-> body]

IdleReq ==
  [op |-> "none", pc |-> "idle", user |-> "u1", id |-> 0, flag |-> "undefined",
   wasDefault |-> FALSE, next |-> 0]

InitTables ==
  /\ db = <<>>
  /\ req = [p \in Procs |-> IdleReq]
  /\ last = Response("none", "u1", 0, 0, NoBody)
  /\ pre = <<>>
  /\ smtpConfig = <<>>
  /\ reply = [op |-> "none", user |-> "u1", status |-> 0]
  /\ before = <<>>
  /\ nreq = 0
  /\ email = <<>>
  /\ attachment = <<>>
  /\ uploads = {}
  /\ now = 0
  /\ nmail = 0

Init == InitTables /\ vault = [pc |-> "idle"]

\* ------------------------------------- handlers, one request after another
\* POST /configs
CreateResult(d, u, flag) ==
  CreateConfig(IF Truthy(flag) THEN ClearDefaults(d, u) ELSE d, u, flag)

PostConfigs(u, flag) ==
  /\ Len(db) < MaxConfigs
  /\ db' = CreateResult(db, u, flag)
  /\ last' = Response("create", u, Len(db) + 1, 201, NoBody)
  /\ pre' = db
  /\ UNCHANGED <<req, fullVars>>

\* PUT /configs/:id
UpdateResult(d, u, id, flag) ==
  UpdateConfig(IF Truthy(flag) THEN ClearOtherDefaults(d, u, id) ELSE d, id, flag)

PutConfig(u, id, flag) ==
  /\ IF ~FindOwned(db, u, id)
     THEN /\ db' = db
          /\ last' = Response("update", u, id, 404, NoBody)
     ELSE /\ db' = UpdateResult(db, u, id, flag)
          /\ last' = Response("update", u, id, 200, NoBody)
  /\ pre' = db
  /\ UNCHANGED <<req, fullVars>>

\* POST /configs/:id/set-default
SetDefault(u, id) ==
  /\ IF ~FindOwnedActive(db, u, id)
     THEN /\ db' = db
          /\ last' = Response("setDefault", u, id, 404, NoBody)
     ELSE /\ db' = SetDefaultTransaction(db, u, id)
          /\ last' = Response("setDefault", u, id, 200, NoBody)
  /\ pre' = db
  /\ UNCHANGED <<req, fullVars>>

\* DELETE /configs/:id
OnlyConfig_Zero(count) == count = 0

OnlyConfig(count) == count = 1

PromoteNext(d, u, id) ==
  IF d[id].isDefault /\ NextConfig(d, u, id) # 0
  THEN MarkDefault(d, NextConfig(d, u, id)) ELSE d

DeleteResult(d, u, id) == SoftDelete(PromoteNext(d, u, id), id)

DeleteConfig(u, id) ==
  /\ IF ~FindOwned(db, u, id)
     THEN /\ db' = db
          /\ last' = Response("delete", u, id, 404, NoBody)
     ELSE IF OnlyConfig(ConfigCount(db, u))
     THEN /\ db' = db
          /\ last' = Response("delete", u, id, 400, NoBody)
     ELSE /\ db' = DeleteResult(db, u, id)
          /\ last' = Response("delete", u, id, 200, NoBody)
  /\ pre' = db
  /\ UNCHANGED <<req, fullVars>>

\* POST /configs/:id/test; verified is the outcome of transporter.verify()
TestConfig(u, id, verified) ==
  /\ IF ~FindOwnedActive(db, u, id)
     THEN last' = Response("test", u, id, 404, NoBody)
     ELSE last' = Response("test", u, id, IF verified THEN 200 ELSE 400, NoBody)
  /\ db' = db
  /\ pre' = db
  /\ UNCHANGED <<req, fullVars>>

\* GET /configs
GetConfigs(u) ==
  /\ last' = Response("list", u, 0, 200, GetConfigsBody(db, u))
  /\ pre' = db
  /\ UNCHANGED <<db, req, fullVars>>

Next ==
  \/ \E u \in Users, flag \in BodyFlags : PostConfigs(u, flag)
  \/ \E u \in Users, id \in Ids, flag \in BodyFlags : PutConfig(u, id, flag)
  \/ \E u \in Users, id \in Ids : SetDefault(u, id)
  \/ \E u \in Users, id \in Ids : DeleteConfig(u, id)
  \/ \E u \in Users, id \in Ids, verified \in BOOLEAN : TestConfig(u, id, verified)
  \/ \E u \in Users : GetConfigs(u)

Spec == Init /\ [][Next]_vars

\* ------------------------------------------- handlers, overlapping requests
\* A request occupies a slot of req from its first database statement to its
\* response.  pc names the statement the handler awaits next; a statement
\* and the synchronous code up to the next await are one step.  The handler
\* touches no shared state before its first statement, so the request's
\* inputs are drawn in the step that runs it.
Idle(p) == req[p].pc = "idle"

At(p, op, pc) == req[p].op = op /\ req[p].pc = pc

InFlight == {p \in Procs : ~Idle(p)}

PendingInserts == {p \in Procs : req[p].op = "create"}

Reply(p, op, u, id, status) ==
  /\ req' = [req EXCEPT ![p] = IdleReq]
  /\ last' = Response(op, u, id, status, NoBody)

Await(p, op, pc, u, id, flag, wasDefault) ==
  /\ req' = [req EXCEPT ![p] = [IdleReq EXCEPT !.op = op, !.pc = pc, !.user = u,
                                !.id = id, !.flag = flag, !.wasDefault = wasDefault]]
  /\ UNCHANGED last

\* POST /configs with isDefault: updateMany
CreateUpdateMany(p, u, flag) ==
  /\ Idle(p)
  /\ Truthy(flag)
  /\ Len(db) + Cardinality(PendingInserts) < MaxConfigs
  /\ db' = ClearDefaults(db, u)
  /\ Await(p, "create", "create", u, 0, flag, FALSE)
  /\ UNCHANGED <<pre, fullVars>>

\* POST /configs: create
CreateInsert(p, u, flag) ==
  /\ \/ At(p, "create", "create") /\ u = req[p].user /\ flag = req[p].flag
     \/ /\ Idle(p)
        /\ ~Truthy(flag)
        /\ Len(db) + Cardinality(PendingInserts) < MaxConfigs
  /\ db' = CreateConfig(db, u, flag)
  /\ Reply(p, "create", u, Len(db) + 1, 201)
  /\ UNCHANGED <<pre, fullVars>>

\* PUT /configs/:id: findFirst
UpdateFindFirst(p, u, id, flag) ==
  /\ Idle(p)
  /\ IF ~FindOwned(db, u, id)
     THEN Reply(p, "update", u, id, 404)
     ELSE Await(p, "update", IF Truthy(flag) THEN "updateMany" ELSE "update",
                u, id, flag, FALSE)
  /\ UNCHANGED <<db, pre, fullVars>>

UpdateUpdateMany(p) ==
  /\ At(p, "update", "updateMany")
  /\ db' = ClearOtherDefaults(db, req[p].user, req[p].id)
  /\ req' = [req EXCEPT ![p].pc = "update"]
  /\ UNCHANGED <<last, pre, fullVars>>

UpdateWrite(p) ==
  /\ At(p, "update", "update")
  /\ db' = UpdateConfig(db, req[p].id, req[p].flag)
  /\ Reply(p, "update", req[p].user, req[p].id, 200)
  /\ UNCHANGED <<pre, fullVars>>

\* POST /configs/:id/set-default: findFirst
SetDefaultFindFirst(p, u, id) ==
  /\ Idle(p)
  /\ IF ~FindOwnedActive(db, u, id)
     THEN Reply(p, "setDefault", u, id, 404)
     ELSE Await(p, "setDefault", "transaction", u, id, "undefined", FALSE)
  /\ UNCHANGED <<db, pre, fullVars>>

SetDefaultCommit(p) ==
  /\ At(p, "setDefault", "transaction")
  /\ db' = SetDefaultTransaction(db, req[p].user, req[p].id)
  /\ Reply(p, "setDefault", req[p].user, req[p].id, 200)
  /\ UNCHANGED <<pre, fullVars>>

\* DELETE /configs/:id: findFirst
DeleteFindFirst(p, u, id) ==
  /\ Idle(p)
  /\ IF ~FindOwned(db, u, id)
     THEN Reply(p, "delete", u, id, 404)
     ELSE Await(p, "delete", "count", u, id, "undefined", db[id].isDefault)
  /\ UNCHANGED <<db, pre, fullVars>>

DeleteCount(p) ==
  /\ At(p, "delete", "count")
  /\ IF OnlyConfig(ConfigCount(db, req[p].user))
     THEN Reply(p, "delete", req[p].user, req[p].id, 400)
     ELSE /\ req' = [req EXCEPT ![p].pc = IF req[p].wasDefault THEN "findNext"
                                           ELSE "softDelete"]
          /\ UNCHANGED last
  /\ UNCHANGED <<db, pre, fullVars>>

DeleteFindNext(p) ==
  /\ At(p, "delete", "findNext")
  /\ LET nextConfig == NextConfig(db, req[p].user, req[p].id)
     IN req' = [req EXCEPT ![p].next = nextConfig,
                           ![p].pc = IF nextConfig # 0 THEN "promote" ELSE "softDelete"]
  /\ UNCHANGED <<db, last, pre, fullVars>>

DeletePromote(p) ==
  /\ At(p, "delete", "promote")
  /\ db' = MarkDefault(db, req[p].next)
  /\ req' = [req EXCEPT ![p].pc = "softDelete", ![p].next = 0]
  /\ UNCHANGED <<last, pre, fullVars>>

DeleteSoftDelete(p) ==
  /\ At(p, "delete", "softDelete")
  /\ db' = SoftDelete(db, req[p].id)
  /\ Reply(p, "delete", req[p].user, req[p].id, 200)
  /\ UNCHANGED <<pre, fullVars>>

\* GET /configs, a single statement
ReadConfigs(u) ==
  /\ last' = Response("list", u, 0, 200, GetConfigsBody(db, u))
  /\ UNCHANGED <<db, req, pre, fullVars>>

NextConc ==
  \/ \E p \in Procs, u \in ConcUsers, flag \in BodyFlags : CreateUpdateMany(p, u, flag)
  \/ \E p \in Procs, u \in ConcUsers, flag \in BodyFlags : CreateInsert(p, u, flag)
  \/ \E p \in Procs, u \in ConcUsers, id \in Ids, flag \in BodyFlags :
       UpdateFindFirst(p, u, id, flag)
  \/ \E p \in Procs : UpdateUpdateMany(p)
  \/ \E p \in Procs : UpdateWrite(p)
  \/ \E p \in Procs, u \in ConcUsers, id \in Ids : SetDefaultFindFirst(p, u, id)
  \/ \E p \in Procs : SetDefaultCommit(p)
  \/ \E p \in Procs, u \in ConcUsers, id \in Ids : DeleteFindFirst(p, u, id)
  \/ \E p \in Procs : DeleteCount(p)
  \/ \E p \in Procs : DeleteFindNext(p)
  \/ \E p \in Procs : DeletePromote(p)
  \/ \E p \in Procs : DeleteSoftDelete(p)
  \/ \E u \in ConcUsers : ReadConfigs(u)

SpecConc == Init /\ [][NextConc]_vars

\* ------------------------------------------------------ credential vault
\* A secret is a string of UTF-16 code units.  The cipher works on bytes:
\* a chained block cipher over a small byte alphabet, keyed by the derived
\* key and started from the iv.
ByteValues == 0..7

Wrap(x) == x % Cardinality(ByteValues)

RECURSIVE SumSeq(_)
SumSeq(bytes) == IF bytes = <<>> THEN 0 ELSE Head(bytes) + SumSeq(Tail(bytes))

\* the code units: four one-byte characters, a two-byte character, the
\* replacement character and the two halves of a surrogate pair
Ascii == <<"a", "p", "w", "s">>

HighSurrogate == "U+D83D"

LowSurrogate == "U+DE00"

ReplacementCharacter == "U+FFFD"

CodeUnits ==
  {Ascii[k] : k \in DOMAIN Ascii}
    \cup {"U+00E9", ReplacementCharacter, HighSurrogate, LowSurrogate}

\* the 'utf8' input encoding of cipher.update: a surrogate pair is one
\* four-byte sequence, an unpaired surrogate is encoded as U+FFFD
RECURSIVE Utf8Encode(_)
Utf8Encode(text) ==
  IF text = <<>> THEN <<>>
  ELSE LET c == Head(text)
       IN IF c = HighSurrogate /\ Len(text) >= 2 /\ text[2] = LowSurrogate
          THEN <<6, 7, 7, 7>> \o Utf8Encode(SubSeq(text, 3, Len(text)))
          ELSE IF c \in {HighSurrogate, LowSurrogate, ReplacementCharacter}
          THEN <<5, 7, 7>> \o Utf8Encode(Tail(text))
          ELSE IF c = "U+00E9"
          THEN <<4, 7>> \o Utf8Encode(Tail(text))
          ELSE <<(CHOOSE k \in DOMAIN Ascii : Ascii[k] = c) - 1>>
               \o Utf8Encode(Tail(text))

\* the 'utf8' output encoding of decipher.update / final: an invalid byte
\* decodes to U+FFFD
RECURSIVE Utf8Decode(_)
Utf8Decode(bytes) ==
  IF bytes = <<>> THEN <<>>
  ELSE LET b == Head(bytes)
           n == Len(bytes)
       IN IF b < Len(Ascii)
          THEN <<Ascii[b + 1]>> \o Utf8Decode(Tail(bytes))
          ELSE IF b = 4 /\ n >= 2 /\ SubSeq(bytes, 2, 2) = <<7>>
          THEN <<"U+00E9">> \o Utf8Decode(SubSeq(bytes, 3, n))
          ELSE IF b = 5 /\ n >= 3 /\ SubSeq(bytes, 2, 3) = <<7, 7>>
          THEN <<ReplacementCharacter>> \o Utf8Decode(SubSeq(bytes, 4, n))
          ELSE IF b = 6 /\ n >= 4 /\ SubSeq(bytes, 2, 4) = <<7, 7, 7>>
          THEN <<HighSurrogate, LowSurrogate>> \o Utf8Decode(SubSeq(bytes, 5, n))
          ELSE <<ReplacementCharacter>> \o Utf8Decode(Tail(bytes))

\* process.env.ENCRYPTION_KEY || 'default-key-change-in-production'
ENCRYPTION_KEY == <<1, 3, 3>>

\* crypto.scryptSync(ENCRYPTION_KEY, 'salt', 32)
ScryptSync(passphrase, salt) == Wrap(SumSeq(passphrase) + SumSeq(salt) + 1)

HexDigits == <<"0", "1", "2", "3", "4", "5", "6", "7">>

\* Buffer.toString('hex')
ToHex(bytes) == [k \in DOMAIN bytes |-> HexDigits[bytes[k] + 1]]

\* Buffer.from(text, 'hex')
FromHex(text) ==
  [k \in DOMAIN text |-> CHOOSE b \in ByteValues : HexDigits[b + 1] = text[k]]

\* crypto.createCipheriv('aes-256-cbc', key, iv): update + final
RECURSIVE CipherIv(_, _, _)
CipherIv(key, chain, plain) ==
  IF plain = <<>> THEN <<>>
  ELSE LET block == Wrap(Head(plain) + chain + key)
       IN <<block>> \o CipherIv(key, block, Tail(plain))

\* crypto.createDecipheriv('aes-256-cbc', key, iv): update + final
RECURSIVE DecipherIv_Unchained(_, _, _)
DecipherIv_Unchained(key, chain, cipher) ==
  IF cipher = <<>> THEN <<>>
  ELSE <<Wrap(Head(cipher) - chain - key + 2 * Cardinality(ByteValues))>>
       \o DecipherIv_Unchained(key, chain, Tail(cipher))

RECURSIVE DecipherIv(_, _, _)
DecipherIv(key, chain, cipher) ==
  IF cipher = <<>> THEN <<>>
  ELSE <<Wrap(Head(cipher) - chain - key + 2 * Cardinality(ByteValues))>>
       \o DecipherIv(key, Head(cipher), Tail(cipher))

\* String.prototype.split(':')
RECURSIVE Split(_)
Split(text) ==
  IF \A k \in DOMAIN text : text[k] # ":" THEN <<text>>
  ELSE LET c == CHOOSE k \in DOMAIN text :
                  text[k] = ":" /\ \A j \in 1..(k - 1) : text[j] # ":"
       IN <<SubSeq(text, 1, c - 1)>> \o Split(SubSeq(text, c + 1, Len(text)))

\* crypto.createDecipher('aes-256-cbc', masterKey): key and iv both come
\* from the passphrase alone
LegacyKey(masterKey) == Wrap(SumSeq(masterKey))

LegacyIv(masterKey) == Wrap(SumSeq(masterKey) + Len(masterKey))

\* encryptPassword with the module's ENCRYPTION_KEY being masterKey; iv is
\* the value of crypto.randomBytes(16)
Encrypt(masterKey, password, iv) ==
  ToHex(<<iv>>) \o <<":">>
    \o ToHex(CipherIv(ScryptSync(masterKey, <<2>>), iv, Utf8Encode(password)))

\* decryptPassword with the module's ENCRYPTION_KEY being masterKey
Decrypt(masterKey, encryptedPassword) ==
  LET parts == Split(encryptedPassword)
  IN IF Len(parts) # 2
     THEN Utf8Decode(DecipherIv(LegacyKey(masterKey), LegacyIv(masterKey),
            FromHex(SelectSeq(encryptedPassword, LAMBDA c : c # ":"))))
     ELSE Utf8Decode(DecipherIv(ScryptSync(masterKey, <<2>>),
                                FromHex(parts[1])[1], FromHex(parts[2])))

EncryptPassword_NoIv(password, iv) ==
  ToHex(CipherIv(LegacyKey(ENCRYPTION_KEY), LegacyIv(ENCRYPTION_KEY),
                 Utf8Encode(password)))

EncryptPassword(password, iv) == Encrypt(ENCRYPTION_KEY, password, iv)

DecryptPassword(encryptedPassword) == Decrypt(ENCRYPTION_KEY, encryptedPassword)

\* ------------------------------------------- rows and bodies, all columns
\* A request body is a record of the nine attributes; has names the ones
\* that are present (an absent attribute is undefined in the handler).
Attributes ==
  {"name", "host", "port", "secure", "username", "password",
   "fromName", "signature", "isDefault"}

Has(body, f) == f \in body.has

\* JavaScript truthiness of body[f]
TruthyText(body, f) == Has(body, f) /\ body[f] # ""

TruthyNumber(body, f) == Has(body, f) /\ body[f] # 0

TruthyFlag(body, f) == Has(body, f) /\ body[f]

TruthySecret(body, f) == Has(body, f) /\ body[f] # <<>>

\* req.user!.name
UserName == [u \in Users |-> IF u = "u1" THEN "Owner One" ELSE "Owner Two"]

\* select: { id, name, host, port, secure, username, fromName, signature,
\*           isDefault, isActive, createdAt }
ConfigSelect_Everything ==
  {"id", "name", "host", "port", "secure", "username", "passwordEncrypted",
   "fromName", "signature", "isDefault", "isActive", "createdAt"}

ConfigSelect ==
  {"id", "name", "host", "port", "secure", "username", "fromName",
   "signature", "isDefault", "isActive", "createdAt"}

\* the legacy GET /config select has no isActive
LegacySelect == ConfigSelect \ {"isActive"}

Select(row, columns) == [c \in columns |-> row[c]]

\* parseInt(port) of a JSON integer
ParseInt(port) == port

\* isNaN(portNum) || portNum < 1 || portNum > 65535
InvalidPort(portNum) == portNum < 1 \/ portNum > 65535

\* !name || !host || !port || !username || !password
MissingRequired(body) ==
  \/ ~TruthyText(body, "name")
  \/ ~TruthyText(body, "host")
  \/ ~TruthyNumber(body, "port")
  \/ ~TruthyText(body, "username")
  \/ ~TruthySecret(body, "password")

\* data of prisma.smtpConfig.create
CreateData(d, u, body, iv) ==
  [id |-> Len(d) + 1,
   userId |-> u,
   name |-> body.name,
   host |-> body.host,
   port |-> ParseInt(body.port),
   secure |-> TruthyFlag(body, "secure"),
   username |-> body.username,
   passwordEncrypted |-> EncryptPassword(body.password, iv),
   fromName |-> IF TruthyText(body, "fromName") THEN body.fromName ELSE UserName[u],
   signature |-> IF TruthyText(body, "signature") THEN body.signature ELSE "",
   isDefault |-> TruthyFlag(body, "isDefault"),
   isActive |-> TRUE,
   createdAt |-> Len(d) + 1]

\* updateData of PUT /configs/:id applied by prisma.smtpConfig.update
UpdateData_SecureCoerced(row, body, iv) ==
  [row EXCEPT
     !.name = IF TruthyText(body, "name") THEN body.name ELSE @,
     !.host = IF TruthyText(body, "host") THEN body.host ELSE @,
     !.port = IF TruthyNumber(body, "port") THEN ParseInt(body.port) ELSE @,
     !.secure = TruthyFlag(body, "secure"),
     !.username = IF TruthyText(body, "username") THEN body.username ELSE @,
     !.passwordEncrypted = IF TruthySecret(body, "password")
                           THEN EncryptPassword(body.password, iv) ELSE @,
     !.fromName = IF Has(body, "fromName") THEN body.fromName ELSE @,
     !.signature = IF Has(body, "signature") THEN body.signature ELSE @,
     !.isDefault = IF Has(body, "isDefault") THEN body.isDefault ELSE @]

UpdateData(row, body, iv) ==
  [row EXCEPT
     !.name = IF TruthyText(body, "name") THEN body.name ELSE @,
     !.host = IF TruthyText(body, "host") THEN body.host ELSE @,
     !.port = IF TruthyNumber(body, "port") THEN ParseInt(body.port) ELSE @,
     !.secure = IF Has(body, "secure") THEN body.secure ELSE @,
     !.username = IF TruthyText(body, "username") THEN body.username ELSE @,
     !.passwordEncrypted = IF TruthySecret(body, "password")
                           THEN EncryptPassword(body.password, iv) ELSE @,
     !.fromName = IF Has(body, "fromName") THEN body.fromName ELSE @,
     !.signature = IF Has(body, "signature") THEN body.signature ELSE @,
     !.isDefault = IF Has(body, "isDefault") THEN body.isDefault ELSE @]

\* --------------------------------------------------------- request inputs
MaxRequests == 3

AcctUsers == {"u1"}

\* values of crypto.randomBytes
Ivs == {1, 2}

EmptyBody ==
  [has |-> {}, name |-> "", host |-> "", port |-> 0, secure |-> FALSE,
   username |-> "", password |-> <<>>, fromName |-> "", signature |-> "",
   isDefault |-> FALSE]

With(body, f, v) == [body EXCEPT !.has = @ \cup {f}, ![f] = v]

Without(body, f) == [body EXCEPT !.has = @ \ {f}, ![f] = EmptyBody[f]]

MainBody ==
  [EmptyBody EXCEPT !.has = {"name", "host", "port", "username", "password"},
                    !.name = "Main", !.host = "smtp.main.test", !.port = 587,
                    !.username = "main@corp.test", !.password = <<"p", "w">>]

BackupBody ==
  [has |-> Attributes, name |-> "Backup", host |-> "smtp.backup.test",
   port |-> 465, secure |-> TRUE, username |-> "backup@corp.test",
   password |-> <<"s">>, fromName |-> "Backup Desk", signature |-> "-- B",
   isDefault |-> FALSE]

ValidCreateBodies ==
  {MainBody, With(MainBody, "isDefault", TRUE),
   BackupBody, With(BackupBody, "isDefault", TRUE)}

\* bodies the claim calls invalid, each asking to become the default
InvalidCreateBodies ==
  {Without(With(MainBody, "isDefault", TRUE), f) :
     f \in {"name", "host", "port", "username", "password"}}
  \cup {With(With(MainBody, "isDefault", TRUE), "port", n) : n \in {0, 65536}}
  \cup {With(With(MainBody, "isDefault", TRUE), "host", "")}

CreateBodies == ValidCreateBodies \cup InvalidCreateBodies

UpdateBodies ==
  {EmptyBody,
   With(EmptyBody, "name", "Renamed"),
   With(EmptyBody, "name", ""),
   With(EmptyBody, "host", "smtp.new.test"),
   With(EmptyBody, "port", 2525),
   With(With(EmptyBody, "port", 0), "host", "smtp.new.test"),
   With(With(With(EmptyBody, "port", 65536), "host", "smtp.new.test"),
        "isDefault", TRUE),
   With(EmptyBody, "secure", TRUE),
   With(EmptyBody, "secure", FALSE),
   With(EmptyBody, "username", "new@corp.test"),
   With(EmptyBody, "password", <<"w", "w">>),
   With(EmptyBody, "fromName", ""),
   With(EmptyBody, "signature", "-- N"),
   With(EmptyBody, "isDefault", TRUE),
   With(EmptyBody, "isDefault", FALSE),
   With(BackupBody, "isDefault", TRUE)}

\* the iv is drawn only when the handler reaches encryptPassword
IvsFor(body) == IF TruthySecret(body, "password") THEN Ivs ELSE {1}

\* ids a caller may name: every row and one id that names none
IdsOf(d) == 1..(Len(d) + 1)

Served(r) ==
  /\ nreq < MaxRequests
  /\ nreq' = nreq + 1
  /\ before' = smtpConfig
  /\ reply' = r
  /\ UNCHANGED <<db, req, last, pre, mailVars, vault>>

Answer(op, u, id, status, body) ==
  [op |-> op, user |-> u, id |-> id, status |-> status, body |-> body]

Asked(answer, body) ==
  [op |-> answer.op, user |-> answer.user, id |-> answer.id,
   status |-> answer.status, body |-> answer.body, request |-> body]

\* ----------------------------------------- account handlers, every column
\* POST /configs
PostConfigsTable(d, u, body, iv) ==
  Append(IF TruthyFlag(body, "isDefault") THEN ClearDefaults(d, u) ELSE d,
         CreateData(d, u, body, iv))

CreateAccount(u, body, iv) ==
  IF MissingRequired(body) \/ InvalidPort(ParseInt(body.port))
  THEN /\ smtpConfig' = smtpConfig
       /\ Served(Asked(Answer("create", u, 0, 400, <<>>), body))
  ELSE /\ smtpConfig' = PostConfigsTable(smtpConfig, u, body, iv)
       /\ Served(Asked(Answer("create", u, Len(smtpConfig) + 1, 201,
                              <<Select(smtpConfig'[Len(smtpConfig) + 1], ConfigSelect)>>),
                       body))

\* PUT /configs/:id
PutConfigsTable(d, u, id, body, iv) ==
  LET cleared == IF TruthyFlag(body, "isDefault")
                 THEN ClearOtherDefaults(d, u, id) ELSE d
  IN [cleared EXCEPT ![id] = UpdateData(cleared[id], body, iv)]

UpdateAccount(u, id, body, iv) ==
  IF ~FindOwned(smtpConfig, u, id)
  THEN /\ smtpConfig' = smtpConfig
       /\ Served(Asked(Answer("update", u, id, 404, <<>>), body))
  ELSE IF TruthyNumber(body, "port") /\ InvalidPort(ParseInt(body.port))
  THEN /\ smtpConfig' = smtpConfig
       /\ Served(Asked(Answer("update", u, id, 400, <<>>), body))
  ELSE /\ smtpConfig' = PutConfigsTable(smtpConfig, u, id, body, iv)
       /\ Served(Asked(Answer("update", u, id, 200,
                              <<Select(smtpConfig'[id], ConfigSelect)>>), body))

\* POST /configs/:id/set-default
SetDefaultAccount(u, id) ==
  IF ~FindOwnedActive(smtpConfig, u, id)
  THEN /\ smtpConfig' = smtpConfig
       /\ Served(Answer("setDefault", u, id, 404, <<>>))
  ELSE /\ smtpConfig' = SetDefaultTransaction(smtpConfig, u, id)
       /\ Served(Answer("setDefault", u, id, 200, <<>>))

\* DELETE /configs/:id
DeleteAccount(u, id) ==
  IF ~FindOwned(smtpConfig, u, id)
  THEN /\ smtpConfig' = smtpConfig
       /\ Served(Answer("delete", u, id, 404, <<>>))
  ELSE IF OnlyConfig(ConfigCount(smtpConfig, u))
  THEN /\ smtpConfig' = smtpConfig
       /\ Served(Answer("delete", u, id, 400, <<>>))
  ELSE /\ smtpConfig' = DeleteResult(smtpConfig, u, id)
       /\ Served(Answer("delete", u, id, 200, <<>>))

\* GET /configs
ListAccounts(u) ==
  /\ smtpConfig' = smtpConfig
  /\ Served(Answer("list", u, 0, 200,
                   SortSeq(SetToSeq({Select(smtpConfig[i], ConfigSelect) :
                                       i \in ActiveOf(smtpConfig, u)}),
                           ListBefore)))

\* GET /configs/:id
GetAccount(u, id) ==
  /\ smtpConfig' = smtpConfig
  /\ IF ~FindOwned(smtpConfig, u, id)
     THEN Served(Answer("get", u, id, 404, <<>>))
     ELSE Served(Answer("get", u, id, 200, <<Select(smtpConfig[id], ConfigSelect)>>))

\* GET /config (legacy): findFirst of the active defaults, null when none
GetLegacyConfig(u, id) ==
  /\ smtpConfig' = smtpConfig
  /\ IF ActiveDefaultsOf(smtpConfig, u) = {}
     THEN id = 0 /\ Served(Answer("legacy", u, 0, 200, <<>>))
     ELSE /\ id \in ActiveDefaultsOf(smtpConfig, u)
          /\ Served(Answer("legacy", u, id, 200,
                           <<Select(smtpConfig[id], LegacySelect)>>))

\* ----------------------------------------------------- resolver, dispatch
Auth(user, pass) == [defined |-> TRUE, user |-> user, pass |-> pass]

\* auth: undefined, or an auth object whose user and pass are undefined
UndefinedAuth == [defined |-> FALSE, user |-> "", pass |-> <<>>]

Returned(value) == [kind |-> "return", value |-> value]

Thrown(error) == [kind |-> "throw", error |-> error]

\* try { ... } catch (error) { return { success: false, error } }
Catch_Rethrow(outcome) == outcome

Catch(outcome) ==
  IF outcome.kind = "throw"
  THEN Returned([success |-> FALSE, error |-> outcome.error])
  ELSE outcome

\* the DEFAULT_SMTP_* environment with its fallbacks
EnvConfig ==
  [host |-> "smtp.gmail.com", port |-> 587, secure |-> FALSE,
   auth |-> Auth("", <<>>)]

\* the object built from the default row: decryptPassword(config.password)
\* reads a column of the row and throws a TypeError when it is undefined
FromDefaultRow(config) ==
  IF "password" \in DOMAIN config
  THEN Returned([source |-> "default", id |-> config.id,
                 config |-> [host |-> config.host, port |-> config.port,
                             secure |-> config.secure,
                             auth |-> Auth(config.username,
                                           DecryptPassword(config.password))]])
  ELSE Thrown("TypeError")

\* getSmtpConfig: every outcome the two findFirst calls allow (neither has
\* an orderBy, so each may return any matching row)
GetSmtpConfig(d, u) ==
  IF ActiveDefaultsOf(d, u) # {}
  THEN {FromDefaultRow(d[i]) : i \in ActiveDefaultsOf(d, u)}
  ELSE IF ActiveOf(d, u) # {}
  THEN {Returned([source |-> "first", id |-> i, config |-> d[i]]) : i \in ActiveOf(d, u)}
  ELSE {Returned([source |-> "env", id |-> 0, config |-> EnvConfig])}

\* the options createTransporter hands to nodemailer.createTransport
TransportOptions(config) ==
  [host |-> config.host, port |-> config.port, secure |-> config.secure,
   auth |-> IF "auth" \in DOMAIN config THEN config.auth ELSE UndefinedAuth]

CreateTransporter(resolved) ==
  IF resolved.kind = "throw" THEN resolved
  ELSE Returned([source |-> resolved.value.source, id |-> resolved.value.id,
                 options |-> TransportOptions(resolved.value.config)])

\* outcomes of transporter.sendMail and transporter.verify
WireOutcomes == {"250 OK", "ECONNREFUSED", "EAUTH", "EENVELOPE"}

\* the body of sendEmail's try block
SendEmailBody(transporter, userFound, wire) ==
  IF transporter.kind = "throw" THEN transporter
  ELSE IF ~userFound THEN Thrown("User not found")
  ELSE IF wire # "250 OK" THEN Thrown(wire)
  ELSE Returned([success |-> TRUE, messageId |-> "<id@relay>", response |-> wire])

SendEmail(transporter, userFound, wire) ==
  Catch(SendEmailBody(transporter, userFound, wire))

\* transporter.sendMail was called
SendMailCalled(transporter, userFound) ==
  transporter.kind = "return" /\ userFound

\* testSmtpConnection reads smtpConfig.username and smtpConfig.password
TestTransportOptions(smtpConfigArg) ==
  [host |-> smtpConfigArg.host, port |-> smtpConfigArg.port,
   secure |-> smtpConfigArg.secure,
   auth |-> IF {"username", "password"} \subseteq DOMAIN smtpConfigArg
            THEN Auth(smtpConfigArg.username, smtpConfigArg.password)
            ELSE UndefinedAuth]

TestSmtpConnection(smtpConfigArg, wire) ==
  Catch(IF wire # "250 OK" THEN Thrown(wire)
        ELSE Returned([success |-> TRUE, message |-> "SMTP connection successful"]))

\* POST /configs/:id/test
TestAccount(u, id, wire) ==
  /\ smtpConfig' = smtpConfig
  /\ IF ~FindOwnedActive(smtpConfig, u, id)
     THEN wire = "250 OK" /\ Served(Answer("test", u, id, 404, <<>>))
     ELSE LET config == smtpConfig[id]
              arg == [host |-> config.host, port |-> config.port,
                      secure |-> config.secure,
                      auth |-> Auth(config.username,
                                    DecryptPassword(config.passwordEncrypted))]
              testResult == TestSmtpConnection(arg, wire)
          IN Served([op |-> "test", user |-> u, id |-> id,
                     status |-> IF testResult.kind = "throw" THEN 500
                                ELSE IF testResult.value.success THEN 200 ELSE 400,
                     body |-> <<>>,
                     result |-> testResult, wire |-> wire,
                     options |-> TestTransportOptions(arg)])

\* getSmtpConfig and createTransporter for an owner
Resolve(u, resolved) ==
  /\ resolved \in GetSmtpConfig(smtpConfig, u)
  /\ smtpConfig' = smtpConfig
  /\ Served([op |-> "resolve", user |-> u, id |-> 0, status |-> 0, body |-> <<>>,
             resolved |-> resolved,
             transporter |-> CreateTransporter(resolved)])

NextAcct ==
  \/ \E u \in AcctUsers, body \in CreateBodies, iv \in Ivs :
       iv \in IvsFor(body) /\ CreateAccount(u, body, iv)
  \/ \E u \in AcctUsers, id \in IdsOf(smtpConfig), body \in UpdateBodies, iv \in Ivs :
       iv \in IvsFor(body) /\ UpdateAccount(u, id, body, iv)
  \/ \E u \in AcctUsers, id \in IdsOf(smtpConfig) : SetDefaultAccount(u, id)
  \/ \E u \in AcctUsers, id \in IdsOf(smtpConfig) : DeleteAccount(u, id)
  \/ \E u \in AcctUsers : ListAccounts(u)
  \/ \E u \in AcctUsers, id \in IdsOf(smtpConfig) : GetAccount(u, id)
  \/ \E u \in AcctUsers, id \in 0..Len(smtpConfig) : GetLegacyConfig(u, id)
  \/ \E u \in AcctUsers, id \in IdsOf(smtpConfig), wire \in WireOutcomes :
       TestAccount(u, id, wire)
  \/ \E u \in AcctUsers : \E resolved \in GetSmtpConfig(smtpConfig, u) :
       Resolve(u, resolved)

SpecAcct == Init /\ [][NextAcct]_vars

\* ------------------------------------------------------------- send route
MaxSends == 2

\* parseInt(process.env.MAX_FILE_SIZE || '10485760')
MAX_FILE_SIZE == 10485760

\* path.join(uploadDir, `${Date.now()}-${file.originalname}`)
FilePath(t, originalname) == [timestamp |-> t, originalname |-> originalname]

Report == [originalname |-> "report.pdf", mimetype |-> "application/pdf", size |-> 2]

Revised ==
  [originalname |-> "report.pdf", mimetype |-> "application/pdf",
   size |-> MAX_FILE_SIZE]

Photo == [originalname |-> "photo.png", mimetype |-> "image/png", size |-> 3]

Video ==
  [originalname |-> "video.mp4", mimetype |-> "video/mp4",
   size |-> MAX_FILE_SIZE + 1]

\* req.files
FileLists ==
  {<<>>, <<Report>>, <<Report, Photo>>, <<Report, Revised>>, <<Video>>,
   <<Report, Video>>}

\* upload.array('attachments') with limits.fileSize: the multipart parser
\* stops at the first file that grows past the limit and the middleware
\* passes the error on instead of calling the handler
LimitExceeded_Never(files) == FALSE

LimitExceeded(files) == \E k \in DOMAIN files : files[k].size > MAX_FILE_SIZE

\* req.body of POST /send; smtpConfigId 0 stands for an absent field
SendRequests(d) ==
  {[to |-> to, subject |-> subject, smtpConfigId |-> id, files |-> files] :
     to \in {<<>>, <<"ann@peer.test">>}, subject \in {"", "Hello"},
     id \in 0..(Len(d) + 1), files \in FileLists}

\* how far the clock moves between two iterations of the staging loop
TicksFor(files) == [1..(Len(files) - 1) -> {0, 1}]

\* the running state of the staging loop
StageStart(att, up, t) ==
  [attachment |-> att, uploads |-> up, attachmentPaths |-> <<>>, now |-> t,
   failed |-> FALSE]

\* one iteration: writeFileSync, attachment.create, attachmentPaths.push
StageFile_NotWritten(st, file, t, emailId) ==
  LET filePath == FilePath(t, file.originalname)
  IN [st EXCEPT
        !.attachmentPaths = Append(@, [filename |-> file.originalname,
                                       path |-> filePath,
                                       contentType |-> file.mimetype]),
        !.now = t]

StageFile(st, file, t, emailId) ==
  LET filePath == FilePath(t, file.originalname)
  IN [st EXCEPT
        !.uploads = @ \cup {filePath},
        !.attachment = Append(@, [emailId |-> emailId,
                                  filename |-> file.originalname,
                                  contentType |-> file.mimetype,
                                  fileSize |-> file.size,
                                  filePath |-> filePath]),
        !.attachmentPaths = Append(@, [filename |-> file.originalname,
                                       path |-> filePath,
                                       contentType |-> file.mimetype]),
        !.now = t]

\* for (const file of files), from file k on; writeFileSync throws at file
\* failAt (0: never)
RECURSIVE Stage(_, _, _, _, _, _)
Stage(st, files, ticks, failAt, emailId, k) ==
  IF k > Len(files) THEN st
  ELSE LET t == IF k = 1 THEN st.now ELSE st.now + ticks[k - 1]
       IN IF failAt = k THEN [st EXCEPT !.failed = TRUE, !.now = t]
          ELSE Stage(StageFile(st, files[k], t, emailId), files, ticks, failAt,
                     emailId, k + 1)

\* prisma.email.create of the send route
EmailData(emailId, u, request) ==
  [id |-> emailId, userId |-> u, toAddresses |-> request.to,
   subject |-> request.subject, folder |-> "SENT", bodyText |-> <<>>]

\* where: { id }
EmailAt(e, emailId) == {k \in DOMAIN e : e[k].id = emailId}

\* where: { id, userId }
OwnedEmailAt(e, u, emailId) == {k \in EmailAt(e, emailId) : e[k].userId = u}

\* email.update({ where: { id }, data: { folder: 'DRAFTS',
\*   bodyText: `[SMTP Error: ${smtpResult.error}]\n\n${bodyText || ''}` } })
MarkUndelivered_LeftInSent(e, emailId, error) == e

MarkUndelivered(e, emailId, error) ==
  [k \in DOMAIN e |->
     IF e[k].id = emailId
     THEN [e[k] EXCEPT !.folder = "DRAFTS",
                       !.bodyText = <<"[SMTP Error: ", error, "]">> \o @]
     ELSE e[k]]

SendReply(op, u, id, status, request) ==
  [op |-> op, user |-> u, id |-> id, status |-> status, body |-> <<>>,
   request |-> request]

\* POST /send up to the call of sendEmail: the upload middleware,
\* validation, the email record and the staging loop; the outer catch
\* answers 500 when the loop throws
SendStage(u, request, ticks, failAt) ==
  /\ nreq < MaxRequests
  /\ nmail < MaxSends
  /\ nreq' = nreq + 1
  /\ before' = smtpConfig
  /\ UNCHANGED <<db, req, last, pre, smtpConfig, vault>>
  /\ IF LimitExceeded(request.files)
     THEN /\ failAt = 0 /\ \A k \in DOMAIN ticks : ticks[k] = 0
          /\ request.to # <<>> /\ request.subject # ""
          /\ reply' = SendReply("send", u, 0, 500, request)
          /\ now' = now + 1
          /\ UNCHANGED <<email, attachment, uploads, nmail>>
     ELSE IF request.to = <<>> \/ request.subject = ""
     THEN /\ ticks = <<>> /\ failAt = 0 /\ Len(request.files) <= 1
          /\ reply' = SendReply("send", u, 0, 400, request)
          /\ now' = now + 1
          /\ UNCHANGED <<email, attachment, uploads, nmail>>
     ELSE LET emailId == nmail + 1
              st == Stage(StageStart(attachment, uploads, now + 1),
                          request.files, ticks, failAt, emailId, 1)
          IN /\ ticks \in TicksFor(request.files)
             /\ email' = Append(email, EmailData(emailId, u, request))
             /\ nmail' = nmail + 1
             /\ attachment' = st.attachment
             /\ uploads' = st.uploads
             /\ now' = st.now
             /\ reply' =
                  IF st.failed THEN SendReply("send", u, emailId, 500, request)
                  ELSE [op |-> "sending", user |-> u, id |-> emailId,
                        status |-> 0, body |-> <<>>, request |-> request,
                        attachments |-> st.attachmentPaths]

\* POST /send from the call of sendEmail to the response
SendDispatch(resolved, userFound, wire) ==
  /\ reply.op = "sending"
  /\ resolved \in GetSmtpConfig(smtpConfig, reply.user)
  /\ LET transporter == CreateTransporter(resolved)
         called == SendMailCalled(transporter, userFound)
         smtpResult == SendEmail(transporter, userFound, wire)
         failed == smtpResult.kind = "return" /\ ~smtpResult.value.success
     IN /\ called \/ wire = "250 OK"
        /\ email' = IF failed
                    THEN MarkUndelivered(email, reply.id, smtpResult.value.error)
                    ELSE email
        /\ reply' = [op |-> "send", user |-> reply.user, id |-> reply.id,
                     status |-> IF smtpResult.kind = "return"
                                     /\ smtpResult.value.success
                                THEN 201 ELSE 500,
                     body |-> <<>>, request |-> reply.request,
                     attachments |-> reply.attachments,
                     transporter |-> transporter, called |-> called,
                     wire |-> wire, smtpResult |-> smtpResult]
  /\ now' = now + 1
  /\ UNCHANGED <<db, req, last, pre, smtpConfig, before, nreq, attachment, uploads,
                 nmail, vault>>

\* ------------------------------------------------------ delete routes
\* include: { attachments: true }
AttachmentsIn(att, emailIds) ==
  SelectSeq(att, LAMBDA a : a.emailId \in emailIds)

\* for (const attachment of attachments)
\*   if (fs.existsSync(attachment.filePath)) fs.unlinkSync(attachment.filePath)
\* files: the directory afterwards; unlinked, skipped: the iterations that
\* found and did not find their file
RECURSIVE Unlink_Nothing(_, _)
Unlink_Nothing(up, rows) ==
  IF rows = <<>> THEN [files |-> up, unlinked |-> 0, skipped |-> 0]
  ELSE LET rest == Unlink_Nothing(up, Tail(rows))
       IN [rest EXCEPT !.skipped = @ + 1]

RECURSIVE Unlink(_, _)
Unlink(up, rows) ==
  IF rows = <<>> THEN [files |-> up, unlinked |-> 0, skipped |-> 0]
  ELSE IF Head(rows).filePath \in up
  THEN LET rest == Unlink(up \ {Head(rows).filePath}, Tail(rows))
       IN [rest EXCEPT !.unlinked = @ + 1]
  ELSE LET rest == Unlink(up, Tail(rows))
       IN [rest EXCEPT !.skipped = @ + 1]

\* email.delete / email.deleteMany; the attachment rows go by cascade
DeleteEmails(e, emailIds) == SelectSeq(e, LAMBDA m : m.id \notin emailIds)

CascadeAttachments(att, emailIds) ==
  SelectSeq(att, LAMBDA a : a.emailId \notin emailIds)

MailReply(op, u, emailIds, action, status, removed) ==
  [op |-> op, user |-> u, id |-> 0, status |-> status, body |-> <<>>,
   emailIds |-> emailIds, action |-> action,
   unlinked |-> removed.unlinked, skipped |-> removed.skipped]

NothingRemoved == [files |-> uploads, unlinked |-> 0, skipped |-> 0]

MailServed(r) ==
  /\ nreq < MaxRequests
  /\ nreq' = nreq + 1
  /\ before' = smtpConfig
  /\ reply' = r
  /\ now' = now + 1
  /\ UNCHANGED <<db, req, last, pre, smtpConfig, nmail, vault>>

\* DELETE /:id
DeleteEmail(u, emailId) ==
  IF OwnedEmailAt(email, u, emailId) = {}
  THEN /\ MailServed(MailReply("deleteEmail", u, <<emailId>>, "delete", 404,
                               NothingRemoved))
       /\ UNCHANGED <<email, attachment, uploads>>
  ELSE LET removed == Unlink(uploads, AttachmentsIn(attachment, {emailId}))
       IN /\ uploads' = removed.files
          /\ email' = DeleteEmails(email, {emailId})
          /\ attachment' = CascadeAttachments(attachment, {emailId})
          /\ MailServed(MailReply("deleteEmail", u, <<emailId>>, "delete", 200,
                                  removed))

Range(seq) == {seq[k] : k \in DOMAIN seq}

\* findMany({ where: { id: { in: emailIds }, userId } })
FindMany(e, u, emailIds) ==
  SelectSeq(e, LAMBDA m : m.id \in Range(emailIds) /\ m.userId = u)

\* updateMany({ where: { id: { in: emailIds }, userId }, data: { folder } })
MoveEmails(e, u, emailIds, folder) ==
  [k \in DOMAIN e |->
     IF e[k].id \in Range(emailIds) /\ e[k].userId = u
     THEN [e[k] EXCEPT !.folder = folder] ELSE e[k]]

\* the unlink loops of the bulk delete, one email after the other
RECURSIVE UnlinkEach(_, _, _)
UnlinkEach(up, att, emails) ==
  IF emails = <<>> THEN [files |-> up, unlinked |-> 0, skipped |-> 0]
  ELSE LET first == Unlink(up, AttachmentsIn(att, {Head(emails).id}))
           rest == UnlinkEach(first.files, att, Tail(emails))
       IN [files |-> rest.files, unlinked |-> first.unlinked + rest.unlinked,
           skipped |-> first.skipped + rest.skipped]

\* POST /bulk; action "" stands for an absent action
BulkEmails(u, emailIds, action, folder) ==
  LET emails == FindMany(email, u, emailIds)
      answer(status) == MailServed(MailReply("bulk", u, emailIds, action, status,
                                             NothingRemoved))
  IN IF action = "" \/ Len(emails) # Len(emailIds)
     THEN /\ answer(400)
          /\ UNCHANGED <<email, attachment, uploads>>
     ELSE IF action = "move"
     THEN IF folder = ""
          THEN answer(400) /\ UNCHANGED <<email, attachment, uploads>>
          ELSE /\ email' = MoveEmails(email, u, emailIds, folder)
               /\ answer(200)
               /\ UNCHANGED <<attachment, uploads>>
     ELSE IF action = "delete"
     THEN LET removed == UnlinkEach(uploads, attachment, emails)
          IN /\ uploads' = removed.files
             /\ email' = DeleteEmails(email, Range(emailIds))
             /\ attachment' = CascadeAttachments(attachment, Range(emailIds))
             /\ MailServed(MailReply("bulk", u, emailIds, action, 200, removed))
     ELSE /\ answer(400)
          /\ UNCHANGED <<email, attachment, uploads>>

\* ids a caller may name: every email created so far and one that was not
EmailIds == 1..(nmail + 1)

\* req.body.emailIds: no id, one id, two ids, the same id twice
EmailIdLists == {<<>>, <<1, 2>>, <<1, 1>>} \cup {<<i>> : i \in EmailIds}

\* req.body.action and req.body.folder; "" stands for an absent field
BulkRequests ==
  {[action |-> "delete", folder |-> ""], [action |-> "move", folder |-> "TRASH"],
   [action |-> "move", folder |-> ""], [action |-> "", folder |-> ""],
   [action |-> "shred", folder |-> ""]}

\* the accounts the send scenarios start from
MailCreateBodies == {MainBody, With(MainBody, "isDefault", TRUE)}

NextMail ==
  \/ \E u \in AcctUsers, body \in MailCreateBodies :
       reply.op # "sending" /\ CreateAccount(u, body, 1)
  \/ \E u \in AcctUsers, id \in IdsOf(smtpConfig), wire \in WireOutcomes :
       reply.op # "sending" /\ TestAccount(u, id, wire)
  \/ \E u \in AcctUsers, request \in SendRequests(smtpConfig) :
       \E ticks \in TicksFor(request.files), failAt \in 0..Len(request.files) :
         reply.op # "sending" /\ SendStage(u, request, ticks, failAt)
  \/ \E resolved \in GetSmtpConfig(smtpConfig, reply.user),
        userFound \in BOOLEAN, wire \in WireOutcomes :
       SendDispatch(resolved, userFound, wire)
  \/ \E u \in Users, emailId \in EmailIds :
       reply.op # "sending" /\ DeleteEmail(u, emailId)
  \/ \E u \in AcctUsers, emailIds \in EmailIdLists, body \in BulkRequests :
       /\ reply.op # "sending"
       /\ body.action \in {"delete", "move"} \/ emailIds = <<1>>
       /\ BulkEmails(u, emailIds, body.action, body.folder)

SpecMail == Init /\ [][NextMail]_vars

\* ------------------------------------------- credential vault, one use
MaxSecretLen == 2

\* values of process.env.ENCRYPTION_KEY
MasterKeys == {ENCRYPTION_KEY, <<2>>, <<0, 5, 7>>}

\* the secret strings up to MaxSecretLen code units
Secrets == UNION {[1..n -> CodeUnits] : n \in 0..MaxSecretLen}

VaultUse(masterKey, secret) ==
  [pc |-> "secret", masterKey |-> masterKey, secret |-> secret, iv |-> 0,
   envelope |-> <<>>, plain |-> <<>>]

InitVault ==
  /\ InitTables
  /\ vault \in {VaultUse(k, t) : k \in MasterKeys, t \in Secrets}

\* encryptPassword(secret) in a process whose ENCRYPTION_KEY is masterKey
VaultEncrypt(iv) ==
  /\ vault.pc = "secret"
  /\ vault' = [vault EXCEPT !.pc = "encrypted", !.iv = iv,
                            !.envelope = Encrypt(vault.masterKey, vault.secret, iv)]
  /\ UNCHANGED <<db, req, last, pre, acctVars, mailVars>>

\* decryptPassword(envelope) in the same process
VaultDecrypt ==
  /\ vault.pc = "encrypted"
  /\ vault' = [vault EXCEPT !.pc = "decrypted",
                            !.plain = Decrypt(vault.masterKey, vault.envelope)]
  /\ UNCHANGED <<db, req, last, pre, acctVars, mailVars>>

NextVault ==
  \/ \E iv \in ByteValues : VaultEncrypt(iv)
  \/ VaultDecrypt

SpecVault == InitVault /\ [][NextVault]_vars

\* ===================================================== properties, Spec
Count(S) == Cardinality(S)

IsDelete(status) == last.op = "delete" /\ last.status = status

\* the row a DELETE addressed was, before the request, an owned row
DeleteTargetOwned == last.id \in RowsOf(pre, last.user)

\* C1: every owner with at least one active account has exactly one active
\* account with isDefault = true, after any sequence of operations run one
\* after another.
C1_SingleDefault ==
  \A u \in Users : ActiveOf(db, u) # {} => Count(ActiveDefaultsOf(db, u)) = 1

\* C2: no owner ever has two or more accounts that are both active and
\* default, whatever sequence of non-overlapping operations ran.
C2_AtMostOneDefault ==
  \A u \in Users : \A i, j \in ActiveDefaultsOf(db, u) : i = j

\* a successful DELETE has just been repeated on an inactive row that still
\* carries isDefault = true, while the owner has an active default
C2_Witness ==
  /\ IsDelete(200)
  /\ DeleteTargetOwned
  /\ ~pre[last.id].isActive
  /\ pre[last.id].isDefault
  /\ ActiveDefaultsOf(db, last.user) # {}

\* C3: DELETE on the owner's only active account answers 400 (cannot delete
\* the only configuration), the account stays active and no row changes.
C3_LastAccountProtected ==
  (/\ last.op = "delete"
   /\ DeleteTargetOwned
   /\ pre[last.id].isActive
   /\ ActiveOf(pre, last.user) = {last.id})
  => (last.status = 400 /\ db = pre /\ db[last.id].isActive)

C3_Witness ==
  /\ IsDelete(400)
  /\ ActiveOf(pre, last.user) = {last.id}
  /\ Len(db) > 1

\* C4: an owner who has created an account always has an active account.
C4_AlwaysOneActive ==
  \A u \in Users : RowsOf(db, u) # {} => ActiveOf(db, u) # {}

\* an owner is down to one active account, and a DELETE of it was refused
C4_Witness ==
  /\ IsDelete(400)
  /\ Count(RowsOf(db, last.user)) > 1
  /\ Count(ActiveOf(db, last.user)) = 1

\* the owner's active accounts with the smallest createdAt
Oldest(d, S) == {i \in S : \A j \in S : d[i].createdAt <= d[j].createdAt}

\* a DELETE has just succeeded on the active default of an owner
DeletedTheDefault ==
  /\ IsDelete(200)
  /\ DeleteTargetOwned
  /\ pre[last.id].isActive
  /\ pre[last.id].isDefault

\* C5: after DELETE succeeds on the owner's active default account, the
\* active default is the oldest remaining active account and only that one.
C5_DefaultReassignment ==
  DeletedTheDefault =>
    /\ Count(ActiveDefaultsOf(db, last.user)) = 1
    /\ ActiveDefaultsOf(db, last.user) = Oldest(db, ActiveOf(db, last.user))

\* two accounts remain, so the choice of the oldest one matters
C5_Witness ==
  /\ DeletedTheDefault
  /\ Count(ActiveOf(db, last.user)) >= 2

ListedDefaults(body) ==
  {body[k].id : k \in {n \in DOMAIN body : body[n].isDefault}}

\* C6: after set-default succeeds, the target is default, no other account
\* of the owner is, and GET /configs lists exactly the target as default.
C6_SetDefaultPost ==
  (last.op = "setDefault" /\ last.status = 200) =>
    /\ db[last.id].isDefault
    /\ DefaultsOf(db, last.user) = {last.id}
    /\ ListedDefaults(GetConfigsBody(db, last.user)) = {last.id}

\* set-default moved the default from another account to the target
C6_Witness ==
  /\ last.op = "setDefault" /\ last.status = 200
  /\ ActiveDefaultsOf(pre, last.user) # {}
  /\ last.id \notin ActiveDefaultsOf(pre, last.user)
  /\ Len(GetConfigsBody(db, last.user)) >= 2

\* C11: update, set-default, test and DELETE with an id that is not a row of
\* the caller answer 404 and leave every row as it was.
C11_NotFound ==
  (/\ last.op \in {"update", "setDefault", "test", "delete"}
   /\ last.id \notin RowsOf(pre, last.user))
  => (last.status = 404 /\ db = pre)

\* the id names a row of another owner
C11_Witness ==
  /\ last.op \in {"update", "setDefault", "test", "delete"}
  /\ last.status = 404
  /\ last.id \in DOMAIN db
  /\ db[last.id].userId # last.user
  /\ db[last.id].isActive

\* C16: GET /configs returns exactly the caller's active rows, each once,
\* default rows before the others and newer rows before older ones within
\* each group.
C16_ListOrder ==
  last.op = "list" =>
    LET body == last.configs
    IN /\ {body[k].id : k \in DOMAIN body} = ActiveOf(db, last.user)
       /\ Len(body) = Count(ActiveOf(db, last.user))
       /\ \A k \in DOMAIN body : body[k] = ListedRow(db, body[k].id)
       /\ \A k, l \in DOMAIN body : k < l =>
            /\ ~(body[l].isDefault /\ ~body[k].isDefault)
            /\ (body[k].isDefault = body[l].isDefault
                  => body[k].createdAt >= body[l].createdAt)

\* the default is listed first although it is older than the next row, and
\* the table holds a row that is not listed
C16_Witness ==
  /\ last.op = "list"
  /\ Len(last.configs) >= 2
  /\ last.configs[1].isDefault
  /\ last.configs[1].createdAt < last.configs[2].createdAt
  /\ Len(db) > Len(last.configs)

\* ================================================= properties, SpecConc
\* slot p takes a step of a request of kind op that it had in flight
StepOf(p, op) == req[p].op = op /\ req'[p] # req[p]

\* C7: the two statements of set-default commit as one step: whenever a
\* set-default request writes, the state it leaves has the target as the
\* owner's only default, so no reader sees the owner with the defaults
\* cleared and the target not yet set, or with two defaults.
C7_SetDefaultAtomic ==
  [][\A p \in Procs : StepOf(p, "setDefault") =>
       /\ DefaultsOf(db', req[p].user) = {req[p].id}
       /\ ActiveDefaultsOf(db', req[p].user) \subseteq {req[p].id}
       /\ (req[p].id \in ActiveOf(db', req[p].user)
             => ListedDefaults(GetConfigsBody(db', req[p].user)) = {req[p].id})]_vars

\* a set-default has committed while another request was in flight and has
\* taken the default over
C7_Witness ==
  /\ last.op = "setDefault" /\ last.status = 200
  /\ InFlight # {}
  /\ Count(ActiveOf(db, last.user)) >= 2
  /\ ActiveDefaultsOf(db, last.user) = {last.id}

\* C8: no step of a DELETE request takes its owner from exactly one active
\* default to two active defaults or to none, so a reader interleaved with
\* the request never sees two defaults or zero.
C8_DeactivateAtomic ==
  [][\A p \in Procs : StepOf(p, "delete") =>
       (Count(ActiveDefaultsOf(db, req[p].user)) = 1
          => Count(ActiveDefaultsOf(db', req[p].user)) = 1)]_vars

\* C9: at no point of any interleaving of overlapping requests of one owner
\* does the owner have two active accounts with isDefault = true.
C9_RacingSingleDefault ==
  \A u \in ConcUsers : Count(ActiveDefaultsOf(db, u)) < 2

\* C10: overlapping DELETE requests never leave an owner who has accounts
\* without an active one.
C10_ConcurrentLastAccount ==
  \A u \in ConcUsers : Count(RowsOf(db, u)) > 0 => Count(ActiveOf(db, u)) > 0

\* ================================================= properties, SpecAcct
Resolved == reply.op = "resolve"

\* C13: the resolver returns the owner's active default account when there
\* is one, otherwise the owner's earliest-created active account, and the
\* environment configuration only when the owner has no active account.
C13_ResolutionOrder ==
  Resolved =>
    /\ reply.resolved.kind = "return"
    /\ IF ActiveDefaultsOf(smtpConfig, reply.user) # {}
       THEN /\ reply.resolved.value.source = "default"
            /\ reply.resolved.value.id \in ActiveDefaultsOf(smtpConfig, reply.user)
       ELSE IF ActiveOf(smtpConfig, reply.user) # {}
       THEN reply.resolved.value.id
              \in Oldest(smtpConfig, ActiveOf(smtpConfig, reply.user))
       ELSE reply.resolved.value.source = "env"

\* C15: when the owner has a stored active account, the options handed to
\* the transport carry the selected account's host, port and secure flag,
\* its username as auth user and its decrypted secret as auth pass.
C15_UsableConfig ==
  (Resolved /\ ActiveOf(smtpConfig, reply.user) # {}) =>
    /\ reply.transporter.kind = "return"
    /\ LET row == smtpConfig[reply.transporter.value.id]
           options == reply.transporter.value.options
       IN /\ options.host = row.host
          /\ options.port = row.port
          /\ options.secure = row.secure
          /\ options.auth = Auth(row.username, DecryptPassword(row.passwordEncrypted))

AccountOps == {"list", "get", "legacy", "create", "update", "setDefault", "delete"}

\* C17: no response of the account operations carries the stored encrypted
\* secret or the plaintext secret: no returned row has such a column and
\* the response has no field besides the status and the returned rows.
C17_SecretConfidential ==
  reply.op \in AccountOps =>
    /\ \A k \in DOMAIN reply.body :
         DOMAIN reply.body[k] \cap {"passwordEncrypted", "password"} = {}
    /\ DOMAIN reply \subseteq {"op", "user", "id", "status", "body", "request"}

\* an update that re-encrypted the secret has answered with the row
C17_Witness ==
  /\ reply.op = "update" /\ reply.status = 200
  /\ Has(reply.request, "password")
  /\ smtpConfig[reply.id].passwordEncrypted # before[reply.id].passwordEncrypted
  /\ Len(reply.body) = 1

\* the bodies the claim calls invalid
MissingForCreate(body) ==
  \E f \in {"host", "port", "username", "password"} :
    ~Has(body, f) \/ body[f] = EmptyBody[f]

PortOutOfRange(body) == Has(body, "port") /\ body.port \notin 1..65535

\* C18: a create with a missing host, port, username or password, and a
\* create or update (of an owned account) with a port outside 1..65535,
\* answer 400 and change nothing; every stored port is in 1..65535.
C18_ValidationNoWrite ==
  /\ (reply.op = "create"
        /\ (MissingForCreate(reply.request) \/ PortOutOfRange(reply.request)))
     => (reply.status = 400 /\ smtpConfig = before)
  /\ (reply.op = "update" /\ FindOwned(before, reply.user, reply.id)
        /\ PortOutOfRange(reply.request))
     => (reply.status = 400 /\ smtpConfig = before)
  /\ \A i \in DOMAIN smtpConfig : smtpConfig[i].port \in 1..65535

\* the column an attribute is stored in
ColumnOf(f) == IF f = "password" THEN "passwordEncrypted" ELSE f

\* C19: a successful update leaves every column of the target whose
\* attribute is absent from the body as it was (the stored secret when no
\* password is given), never touches isActive, and changes nothing of any
\* other row except clearing isDefault when the body sets isDefault.
C19_PartialUpdate ==
  (reply.op = "update" /\ reply.status = 200) =>
    LET old == before[reply.id]
        new == smtpConfig[reply.id]
    IN /\ \A f \in Attributes :
            ~Has(reply.request, f) => new[ColumnOf(f)] = old[ColumnOf(f)]
       /\ \A c \in {"id", "userId", "isActive", "createdAt"} : new[c] = old[c]
       /\ Len(smtpConfig) = Len(before)
       /\ \A j \in DOMAIN before : j # reply.id =>
            /\ [smtpConfig[j] EXCEPT !.isDefault = before[j].isDefault] = before[j]
            /\ (smtpConfig[j].isDefault # before[j].isDefault
                  => TruthyFlag(reply.request, "isDefault"))

\* an update that names only one attribute changed a row whose other
\* columns hold values an absent attribute would coerce differently
C19_Witness ==
  /\ reply.op = "update" /\ reply.status = 200
  /\ reply.request.has = {"name"}
  /\ smtpConfig[reply.id] # before[reply.id]
  /\ before[reply.id].secure
  /\ before[reply.id].signature # ""

\* ================================================= properties, SpecMail
Dispatched == reply.op = "send" /\ "smtpResult" \in DOMAIN reply

Tested == reply.op = "test" /\ "result" \in DOMAIN reply

\* C12: sendEmail and testSmtpConnection never throw to their caller: they
\* return success = false with an error for every failure inside them
\* (lookup or decryption failure, missing user, refused connection,
\* rejected authentication or recipient) and success = true when the
\* transport succeeds, sendEmail with the message id and the response.
C12_NonThrowingDispatch ==
  /\ Dispatched =>
       /\ reply.smtpResult.kind = "return"
       /\ reply.smtpResult.value.success
            = (reply.called /\ reply.wire = "250 OK")
       /\ IF reply.smtpResult.value.success
          THEN {"messageId", "response"} \subseteq DOMAIN reply.smtpResult.value
          ELSE "error" \in DOMAIN reply.smtpResult.value
  /\ Tested =>
       /\ reply.result.kind = "return"
       /\ reply.result.value.success = (reply.wire = "250 OK")
       /\ reply.result.value.success \/ "error" \in DOMAIN reply.result.value

\* the configuration lookup failed inside sendEmail and came back as a value
C12_Witness ==
  /\ Dispatched
  /\ reply.transporter.kind = "throw"
  /\ reply.smtpResult = Returned([success |-> FALSE, error |-> "TypeError"])

\* C14: a send request that names an account is dispatched only when the
\* account is the caller's and active (it answers 404 otherwise, before any
\* dispatch), and then through that account.
C14_ExplicitAccount ==
  (Dispatched /\ reply.request.smtpConfigId # 0) =>
    /\ FindOwnedActive(smtpConfig, reply.user, reply.request.smtpConfigId)
    /\ reply.transporter.kind = "return"
    /\ reply.transporter.value.id = reply.request.smtpConfigId

\* the attachment rows of a message
AttachmentsOf(emailId) ==
  SelectSeq(attachment, LAMBDA a : a.emailId = emailId)

C24_SoftDeleteTerminal ==
  [][/\ Len(db') >= Len(db)
     /\ \A i \in DOMAIN db :
          /\ db'[i].userId = db[i].userId
          /\ db'[i].createdAt = db[i].createdAt
          /\ ~db[i].isActive => ~db'[i].isActive]_vars

\* an update succeeded on an account that was already inactive
C24_Witness ==
  /\ last.op = "update" /\ last.status = 200
  /\ ~pre[last.id].isActive
  /\ db # pre

\* C27: a request of owner U leaves every row of every other owner as it
\* was, also when U names the id of another owner's account.
C27_OwnerIsolation ==
  [][\A i \in DOMAIN db : db[i].userId # last'.user => db'[i] = db[i]]_vars

\* an owner named a default account of another owner in a write request
C27_Witness ==
  /\ last.op \in {"update", "setDefault", "delete"}
  /\ last.id \in DOMAIN db
  /\ db[last.id].userId # last.user
  /\ db[last.id].isDefault
  /\ DefaultsOf(db, last.user) # {}

\* C29: no inactive account carries isDefault = true.
C29_InactiveNotDefault ==
  \A i \in DOMAIN db : ~db[i].isActive => ~db[i].isDefault

\* C30: a deactivate request for an account of the owner that is already
\* inactive changes no field of any account.
C30_RepeatedDeactivate ==
  [][(/\ last'.op = "delete"
      /\ last'.id \in RowsOf(db, last'.user)
      /\ ~db[last'.id].isActive) => db' = db]_vars

\* ================================================ properties, SpecVault
\* C25: for every secret s and every master key, decryptPassword applied to
\* encryptPassword(s) under the same key returns s.
C25_RoundTrip ==
  vault.pc = "decrypted" => vault.plain = vault.secret

\* no unpaired surrogate: every high half is followed by a low half and
\* every low half follows a high half
WellFormed(text) ==
  \A k \in DOMAIN text :
    /\ text[k] = HighSurrogate => (k < Len(text) /\ text[k + 1] = LowSurrogate)
    /\ text[k] = LowSurrogate => (k > 1 /\ text[k - 1] = HighSurrogate)

\* C25 as amended: the round trip returns s for every master key and every
\* secret s that has no unpaired surrogate.
C25_RoundTripWellFormed ==
  (vault.pc = "decrypted" /\ WellFormed(vault.secret)) =>
    vault.plain = vault.secret

\* a surrogate pair came back under a key other than the default one
C25_Witness ==
  /\ vault.pc = "decrypted"
  /\ vault.secret = <<HighSurrogate, LowSurrogate>>
  /\ vault.masterKey # ENCRYPTION_KEY
  /\ vault.plain = vault.secret

\* ======================================= properties, SpecAcct (secrets)
HexText(text) ==
  \A k \in DOMAIN text : \E b \in ByteValues : text[k] = HexDigits[b + 1]

\* hex(iv) ":" hex(ciphertext): one colon, which is the branch condition
\* of decryptPassword for the iv path
VersionedEnvelope(stored) ==
  /\ Len(SelectSeq(stored, LAMBDA c : c = ":")) = 1
  /\ Len(Split(stored)) = 2
  /\ Len(Split(stored)[1]) = 1
  /\ HexText(Split(stored)[1])
  /\ HexText(Split(stored)[2])

SecretWritten ==
  /\ reply.op \in {"create", "update"}
  /\ reply.status \in {200, 201}
  /\ TruthySecret(reply.request, "password")

\* C26: every stored secret is a versioned envelope with exactly one colon;
\* the secret a create or an update with a password writes is the output
\* of encryptPassword for the request's password, is not the plaintext and
\* decrypts through the iv branch to the password.
C26_NoClearTextOrLegacy ==
  /\ \A i \in DOMAIN smtpConfig :
       VersionedEnvelope(smtpConfig[i].passwordEncrypted)
  /\ SecretWritten =>
       LET stored == smtpConfig[reply.id].passwordEncrypted
       IN /\ \E iv \in Ivs : stored = EncryptPassword(reply.request.password, iv)
          /\ stored # reply.request.password
          /\ DecryptPassword(stored) = reply.request.password

\* a create stored the envelope of its password
C26_Witness ==
  /\ SecretWritten /\ reply.op = "create"
  /\ smtpConfig[reply.id].passwordEncrypted
       = EncryptPassword(reply.request.password, 2)
  /\ Len(reply.request.password) = 2

\* ========================================= properties, SpecMail (files)
\* C21: a send request with a file larger than the limit is rejected
\* without creating a message record, writing a file or attempting
\* dispatch.
C21_SizeCap ==
  [][(/\ reply'.op \in {"send", "sending"}
      /\ nreq' = nreq + 1
      /\ \E k \in DOMAIN reply'.request.files :
           reply'.request.files[k].size > MAX_FILE_SIZE)
     => (/\ reply'.op = "send"
         /\ reply'.status >= 400
         /\ "smtpResult" \notin DOMAIN reply'
         /\ email' = email
         /\ attachment' = attachment
         /\ uploads' = uploads)]_vars

\* a request whose second file is over the limit was rejected
C21_Witness ==
  /\ reply.op = "send" /\ reply.status = 500 /\ reply.id = 0
  /\ Len(reply.request.files) = 2
  /\ reply.request.files[1].size <= MAX_FILE_SIZE
  /\ reply.request.files[2].size > MAX_FILE_SIZE

Undelivered ==
  /\ Dispatched
  /\ reply.smtpResult.kind = "return"
  /\ ~reply.smtpResult.value.success

\* C22: when dispatch returns success = false the request is answered and
\* the message record still exists, in DRAFTS, with the error text in its
\* body and with its staged attachments and their files.
C22_FailedSendRetained ==
  Undelivered =>
    /\ reply.status = 500
    /\ OwnedEmailAt(email, reply.user, reply.id) # {}
    /\ \A k \in EmailAt(email, reply.id) :
         /\ email[k].folder = "DRAFTS"
         /\ reply.smtpResult.value.error \in Range(email[k].bodyText)
    /\ Len(AttachmentsOf(reply.id)) = Len(reply.request.files)
    /\ \A k \in DOMAIN AttachmentsOf(reply.id) :
         AttachmentsOf(reply.id)[k].filePath \in uploads

\* the server rejected the login for a message with two attachments
C22_Witness ==
  /\ Undelivered
  /\ reply.smtpResult.value.error = "EAUTH"
  /\ Len(reply.request.files) = 2

\* C23: a delete (single or bulk) of messages of the caller answers 200,
\* removes the messages and leaves no file of their attachments in the
\* upload directory, whether or not each file was still there.
C23_Release ==
  [][(/\ reply'.op \in {"deleteEmail", "bulk"}
      /\ nreq' = nreq + 1
      /\ reply'.action = "delete"
      /\ Cardinality(Range(reply'.emailIds)) = Len(reply'.emailIds)
      /\ \A id \in Range(reply'.emailIds) :
           OwnedEmailAt(email, reply'.user, id) # {})
     => (/\ reply'.status = 200
         /\ \A id \in Range(reply'.emailIds) : EmailAt(email', id) = {}
         /\ \A k \in DOMAIN attachment :
              attachment[k].emailId \in Range(reply'.emailIds)
                => attachment[k].filePath \notin uploads'
         /\ uploads' \subseteq uploads)]_vars

\* a bulk delete of two messages removed files and skipped a missing one
C23_Witness ==
  /\ reply.op = "bulk" /\ reply.action = "delete" /\ reply.status = 200
  /\ Len(reply.emailIds) = 2
  /\ reply.unlinked >= 2
  /\ reply.skipped >= 1

\* C28: after a send request has been answered, the record it created is
\* in SENT only if the transport send of that request returned success.
C28_SentMeansSent ==
  (reply.op = "send" /\ reply.id # 0) =>
    \A k \in EmailAt(email, reply.id) :
      email[k].folder = "SENT" =>
        /\ Dispatched
        /\ reply.smtpResult.kind = "return"
        /\ reply.smtpResult.value.success

====
